---- MODULE Spec2Model ----
(***************************************************************************)
(* Activity recognition firmware: get_prediction (modules/main.py) and the *)
(* Madgwick IMU filter (modules/madgwick.py).                              *)
(*                                                                         *)
(* Spec        : the /activity handler, one get_prediction call at a time, *)
(*               the batch loop stepped one sample at a time.              *)
(* SpecCascade : the cascade, the tally update and the vote as functions   *)
(*               of the collaborator scores and of the tally.              *)
(* SpecFilter  : the per-sample filter construction and updateIMU.         *)
(***************************************************************************)
EXTENDS Integers, Sequences, FiniteSets, TLC

VARIABLES
    pc,                  \* "idle" | "sampling" (Spec); "start" | "tallied" | "voted" (SpecCascade); "filter" (SpecFilter)
    sensors_initialized, \* main.py global, set once at import
    device_state,        \* main.py global
    last_button_state,   \* main.py global
    pin_reads,           \* the pin.value() results of the current call, in order
    category,            \* the 7-slot tally
    c,                   \* loop counter of the batch
    score,               \* cascade output of the latest sample
    changes,             \* how often the cascade output changed between consecutive samples
    index,               \* winning slot
    activity,            \* mapper.get(index)
    result,              \* value returned by the latest get_prediction call
    display,             \* texts passed to display.screen(..).show_once() in the current call
    reads,               \* sensor read attempts of the current call
    dev_at_call,         \* device_state when the current call was entered
    failedAt,            \* sample number whose read raised in the current call, 0 if none
    uniform,             \* slots that were the unique maximum of every sample of the batch so far
    motion_score, steady_score, unsteady_score, staircase_score, surface_score,
                         \* what each collaborator returned for the latest sample, <<>> if not asked
    prev_category,       \* the tally before the latest tally update
    madgwick,            \* quaternion <<q0,q1,q2,q3>> of the filter object of the latest sample
    q_start,             \* quaternion the latest updateIMU started from
    q_prev,              \* quaternion the sample before the latest one ended with
    gyro, accel, dt,     \* reading and elapsed time of the latest sample
    grad                 \* <<s0,s1,s2,s3>> before normalisation, <<>> if not computed

progVars == <<pc, sensors_initialized, device_state, last_button_state, pin_reads,
              category, c, score, changes, index, activity, result, display, reads,
              dev_at_call, failedAt, uniform>>
cascVars == <<motion_score, steady_score, unsteady_score, staircase_score, surface_score,
              prev_category>>
filtVars == <<madgwick, q_start, q_prev, gyro, accel, dt, grad>>
vars == <<progVars, cascVars, filtVars>>

----------------------------------------------------------------------------
(* Bounds *)

\* cascade outputs of a batch change at most this often between consecutive samples
MaxChanges == 0
\* largest per-slot count of the tallies SpecCascade starts from
MaxTally == 1

\* fixed-point resolution of the filter arithmetic: the real x is the integer x * Scale
Scale == 1000

\* gyro readings (degrees/second), accelerometer readings and elapsed
\* milliseconds of SpecFilter
GyroVals == {<<0, 0, 0>>, <<90, 0, 0>>, <<0, -90, 45>>}
AccelVals == {<<0, 0, 0>>, <<0, 0, 1>>, <<0, 1, 0>>, <<3, 0, -4>>}
DtVals == {0, 50}

\* score values the collaborators return in Spec
BatchVals == {0, 1}
\* score values of the routing collaborators (motion, unsteady) in SpecCascade
RouteVals == {0, 1}
\* score values of the leaf collaborators (steady, staircase, surface) in SpecCascade
LeafVals == {-1, 0, 1}

----------------------------------------------------------------------------
(* Constants and pure functions of main.py *)

Slots == 0..6
NotEvaluated == << >>

samples_to_collect == 30

mapper == [i \in Slots |->
             CASE i = 0 -> "Walking"
               [] i = 1 -> "Jogging"
               [] i = 2 -> "Downstairs"
               [] i = 3 -> "Upstairs"
               [] i = 4 -> "Sitting"
               [] i = 5 -> "Standing"
               [] i = 6 -> "Sleeping"]

Labels == {mapper[i] : i \in Slots}

mapper_get(i) == IF i \in DOMAIN mapper THEN mapper[i] ELSE "Unknown"

ZeroTally == [i \in Slots |-> 0]

RECURSIVE MaxFrom(_, _, _)
MaxFrom(f, i, hi) == IF i = hi THEN f[i]
                     ELSE LET rest == MaxFrom(f, i + 1, hi)
                          IN  IF f[i] >= rest THEN f[i] ELSE rest

\* max(list) over a 7-slot list
max(f) == MaxFrom(f, 0, 6)

\* motion_score[0] >= motion_score[1]
TakesSteady(m) == m[0] >= m[1]

\* unsteady_score[0] <= unsteady_score[1]
TakesStaircase_Strict(u) == u[0] < u[1]
TakesStaircase(u) == u[0] <= u[1]

SteadyLeaf(st) == [i \in Slots |-> IF i >= 4 THEN st[i - 4] ELSE 0]
StaircaseLeaf(sc) == [i \in Slots |-> IF i \in {2, 3} THEN sc[i - 2] ELSE 0]
SurfaceLeaf(su) == [i \in Slots |-> IF i \in {0, 1} THEN su[i] ELSE 0]

\* One run of the model scoring logic, given what each collaborator returns
\* when asked.  A collaborator that is not asked leaves its variable unset.
Cascade(m, st, un, sc, su) ==
    IF TakesSteady(m)
    THEN [motion_score |-> m, steady_score |-> st, unsteady_score |-> NotEvaluated,
          staircase_score |-> NotEvaluated, surface_score |-> NotEvaluated,
          score |-> SteadyLeaf(st)]
    ELSE IF TakesStaircase(un)
         THEN [motion_score |-> m, steady_score |-> NotEvaluated, unsteady_score |-> un,
               staircase_score |-> sc, surface_score |-> NotEvaluated,
               score |-> StaircaseLeaf(sc)]
         ELSE [motion_score |-> m, steady_score |-> NotEvaluated, unsteady_score |-> un,
               staircase_score |-> NotEvaluated, surface_score |-> su,
               score |-> SurfaceLeaf(su)]

\* every run of the cascade with routing scores from R and leaf scores from L
CascadeRuns(R, L) ==
    { Cascade(m, st, un, sc, su) :
        m \in [0..1 -> R], st \in [0..2 -> L], un \in [0..1 -> R],
        sc \in [0..1 -> L], su \in [0..1 -> L] }

BatchRuns == CascadeRuns(BatchVals, BatchVals)
BatchScores == { r.score : r \in BatchRuns }
WideRuns == CascadeRuns(RouteVals, LeafVals)

\* "Find highest score": every slot equal to the maximum gets one vote
TallyUpdate_FirstOnly(cat, s) ==
    LET maxval == max(s)
        first == CHOOSE i \in Slots : s[i] = maxval /\ \A j \in 0..(i - 1) : s[j] # maxval
    IN  [i \in Slots |-> IF i = first THEN cat[i] + 1 ELSE cat[i]]
TallyUpdate(cat, s) ==
    LET maxval == max(s)
    IN  [i \in Slots |-> IF s[i] = maxval THEN cat[i] + 1 ELSE cat[i]]

\* "Determine most frequent category": index = 0, then the first i with
\* category[i] == maxcat, then break
RECURSIVE ScanLast(_, _, _, _)
ScanLast(cat, maxcat, i, found) ==
    IF i > 6 THEN found
    ELSE ScanLast(cat, maxcat, i + 1, IF cat[i] = maxcat THEN i ELSE found)
RECURSIVE ScanFirst(_, _, _)
ScanFirst(cat, maxcat, i) ==
    IF i > 6 THEN 0
    ELSE IF cat[i] = maxcat THEN i ELSE ScanFirst(cat, maxcat, i + 1)

Winner_NoBreak(cat) == ScanLast(cat, max(cat), 0, 0)
Winner(cat) == ScanFirst(cat, max(cat), 0)

\* while c < samples_to_collect
MoreSamples_OffByOne(n) == n <= samples_to_collect
MoreSamples(n) == n < samples_to_collect

\* slots at which s has its maximum, and nowhere else
UniqueMaxSlots(s) == { k \in Slots : s[k] = max(s) /\ \A j \in Slots \ {k} : s[j] # max(s) }

----------------------------------------------------------------------------
(* Spec: the /activity handler *)

Init ==
    /\ pc = "idle"
    /\ sensors_initialized \in BOOLEAN
    /\ device_state = FALSE
    /\ last_button_state \in {0, 1}
    /\ pin_reads = << >>
    /\ category = ZeroTally
    /\ c = 0
    /\ score = ZeroTally
    /\ changes = 0
    /\ index = 0
    /\ activity = "Unknown"
    /\ result = "None"
    /\ display = << >>
    /\ reads = 0
    /\ dev_at_call = FALSE
    /\ failedAt = 0
    /\ uniform = {}
    /\ motion_score = NotEvaluated
    /\ steady_score = NotEvaluated
    /\ unsteady_score = NotEvaluated
    /\ staircase_score = NotEvaluated
    /\ surface_score = NotEvaluated
    /\ prev_category = ZeroTally
    /\ madgwick = << >>
    /\ q_start = << >>
    /\ q_prev = << >>
    /\ gyro = << >>
    /\ accel = << >>
    /\ dt = 0
    /\ grad = << >>

\* device_state after the button check: toggled on a falling edge that is
\* still low after the 500 ms wait
ButtonToggle_NoDebounce(ds, last, cur, again) ==
    IF last = 1 /\ cur = 0 THEN ~ds ELSE ds
ButtonToggle(ds, last, cur, again) ==
    IF last = 1 /\ cur = 0 /\ again = 0 THEN ~ds ELSE ds

\* "if not device_state": the global is read after the button check
StopsWhenOff_Stale(old, new) == ~old
StopsWhenOff(old, new) == ~new

\* texts shown by the button check and the OFF check
ButtonDisplay(ds, last, cur, again) ==
    LET new == ButtonToggle(ds, last, cur, again)
        t == IF new # ds THEN <<IF new THEN "Device ON" ELSE "Device OFF">> ELSE << >>
    IN  IF StopsWhenOff(ds, new) THEN Append(t, "System is OFF") ELSE t

\* get_prediction, from its entry to the start of the batch loop or to an
\* early return
Enter ==
    /\ pc = "idle"
    /\ dev_at_call' = device_state
    /\ reads' = 0
    /\ failedAt' = 0
    /\ IF ~sensors_initialized
       THEN /\ result' = "Sensor Error"
            /\ pin_reads' = << >>
            /\ display' = << >>
            /\ UNCHANGED <<pc, device_state, last_button_state, category, c, changes, uniform>>
       ELSE /\ \E cur \in {0, 1}, again \in {0, 1} :
                  LET edge == last_button_state = 1 /\ cur = 0
                      new == ButtonToggle(device_state, last_button_state, cur, again)
                  IN  /\ pin_reads' = IF edge THEN <<cur, again>> ELSE <<cur>>
                      /\ device_state' = new
                      /\ last_button_state' = cur
                      /\ display' = ButtonDisplay(device_state, last_button_state, cur, again)
                      /\ pc' = IF StopsWhenOff(device_state, new) THEN "idle" ELSE "sampling"
                      /\ result' = IF StopsWhenOff(device_state, new) THEN "Device OFF" ELSE "None"
            /\ category' = ZeroTally
            /\ c' = 0
            /\ changes' = 0
            /\ uniform' = Slots
    /\ score' = ZeroTally
    /\ index' = 0
    /\ activity' = "Unknown"
    /\ UNCHANGED sensors_initialized
    /\ UNCHANGED <<cascVars, filtVars>>

\* one pass of the loop body in which nothing raises
Sample ==
    /\ pc = "sampling"
    /\ MoreSamples(c)
    /\ \E s \in BatchScores :
          LET changed == c > 0 /\ s # score
          IN  /\ changed => changes < MaxChanges
              /\ changes' = IF changed THEN changes + 1 ELSE changes
              /\ score' = s
              /\ category' = TallyUpdate(category, s)
              /\ uniform' = uniform \cap UniqueMaxSlots(s)
    /\ reads' = reads + 1
    /\ c' = c + 1
    /\ UNCHANGED <<pc, sensors_initialized, device_state, last_button_state, pin_reads,
                   index, activity, result, display, dev_at_call, failedAt>>
    /\ UNCHANGED <<cascVars, filtVars>>

\* the sensor read of a pass raises: except-branch, return "Sensor Error"
SampleFail_Swallow ==
    /\ pc = "sampling"
    /\ MoreSamples(c)
    /\ reads' = reads + 1
    /\ failedAt' = c + 1
    /\ c' = c + 1
    /\ UNCHANGED <<pc, sensors_initialized, device_state, last_button_state, pin_reads,
                   category, score, changes, index, activity, result, display,
                   dev_at_call, uniform>>
    /\ UNCHANGED <<cascVars, filtVars>>

SampleFail ==
    /\ pc = "sampling"
    /\ MoreSamples(c)
    /\ reads' = reads + 1
    /\ failedAt' = c + 1
    /\ result' = "Sensor Error"
    /\ pc' = "idle"
    /\ UNCHANGED <<sensors_initialized, device_state, last_button_state, pin_reads,
                   category, c, score, changes, index, activity, display,
                   dev_at_call, uniform>>
    /\ UNCHANGED <<cascVars, filtVars>>

\* after the loop: vote, map, display, return
Resolve ==
    /\ pc = "sampling"
    /\ ~MoreSamples(c)
    /\ index' = Winner(category)
    /\ activity' = mapper_get(Winner(category))
    /\ display' = Append(display, mapper_get(Winner(category)))
    /\ result' = mapper_get(Winner(category))
    /\ pc' = "idle"
    /\ UNCHANGED <<sensors_initialized, device_state, last_button_state, pin_reads,
                   category, c, score, changes, reads, dev_at_call, failedAt, uniform>>
    /\ UNCHANGED <<cascVars, filtVars>>

Next == Enter \/ Sample \/ SampleFail \/ Resolve

Spec == Init /\ [][Next]_vars

----------------------------------------------------------------------------
(* Properties of Spec *)

\* a get_prediction call is under way or has returned
Called == pc = "sampling" \/ result # "None"

NoLabelShown == \A i \in DOMAIN display : display[i] \notin Labels

\* C4: if the read of sample i raises, the call returns "Sensor Error" right
\* there: i reads were attempted and no more follow, the tally of the samples
\* before i is not resolved (no index, no activity) and no activity label is
\* shown during the call.
C4_ReadFailureAborts ==
    failedAt > 0 =>
        /\ failedAt \in 1..samples_to_collect
        /\ pc = "idle"
        /\ result = "Sensor Error"
        /\ reads = failedAt
        /\ c = failedAt - 1
        /\ activity = "Unknown"
        /\ NoLabelShown

\* the read of the last sample of a batch raised, after 29 samples were tallied
C4_Witness ==
    /\ failedAt = samples_to_collect
    /\ category # ZeroTally
    /\ result = "Sensor Error"
    /\ pc = "idle"

\* C5 as stated: whenever device_state is OFF when the call is made, the call
\* returns "Device OFF" and reads no sample, whatever the button levels and
\* whatever sensors_initialized.
C5_OffAtRequest ==
    (Called /\ ~dev_at_call) => (pc = "idle" /\ result = "Device OFF" /\ reads = 0)

\* C5 amended: whenever the sensors are initialized and device_state is OFF
\* after the button check of the call, the call returns "Device OFF" and
\* reads no sample.
C5_OffAfterButtonCheck ==
    (Called /\ sensors_initialized /\ ~device_state) =>
        (pc = "idle" /\ result = "Device OFF" /\ reads = 0 /\ NoLabelShown)

\* the device was ON when the call was made and the button check turned it OFF
C5_Witness ==
    /\ dev_at_call
    /\ ~device_state
    /\ pin_reads = <<0, 0>>
    /\ result = "Device OFF"
    /\ reads = 0

\* C6 as stated: no step of get_prediction changes device_state.
C6_NeverChanges == [][device_state' = device_state]_vars

\* C6 amended: get_prediction changes device_state exactly when the sensors
\* are initialized, the previous button level is 1, the level read on entry
\* is 0 and the level read again after the 500 ms wait is 0; it then inverts
\* device_state, and in every other case leaves it as it was.
C6_ChangesOnlyOnDebouncedEdge ==
    [][ (device_state' # device_state) <=>
          ( /\ pc = "idle"
            /\ sensors_initialized
            /\ last_button_state = 1
            /\ pin_reads' = <<0, 0>>
            /\ dev_at_call' = device_state ) ]_vars

\* a call found the device OFF and its button check turned it ON
C6_Witness ==
    /\ ~dev_at_call
    /\ device_state
    /\ pin_reads = <<0, 0>>
    /\ pc = "sampling"

\* C7: a call that returns a label has read exactly 30 samples, and if every
\* one of them had its unique maximum at the same slot k, the tally is 30 in
\* slot k and 0 elsewhere and the label is mapper[k].
C7_UniformBatch ==
    (pc = "idle" /\ result \in Labels) =>
        /\ reads = 30
        /\ c = 30
        /\ failedAt = 0
        /\ \A k \in uniform :
              /\ category = [i \in Slots |-> IF i = k THEN 30 ELSE 0]
              /\ result = mapper[k]

\* thirty samples with the surface scores highest in slot 0: "Walking"
C7_Witness ==
    /\ pc = "idle"
    /\ result = "Walking"
    /\ uniform = {0}
    /\ score = [i \in Slots |-> IF i = 0 THEN 1 ELSE 0]
    /\ category = [i \in Slots |-> IF i = 0 THEN 30 ELSE 0]

----------------------------------------------------------------------------
(* SpecCascade: model scoring, tally update and vote on one sample *)

InitCascade ==
    /\ pc = "start"
    /\ category \in [Slots -> 0..MaxTally]
    /\ sensors_initialized = TRUE
    /\ device_state = TRUE
    /\ last_button_state = 0
    /\ pin_reads = << >>
    /\ c = 0
    /\ score = ZeroTally
    /\ changes = 0
    /\ index = 0
    /\ activity = "Unknown"
    /\ result = "None"
    /\ display = << >>
    /\ reads = 0
    /\ dev_at_call = TRUE
    /\ failedAt = 0
    /\ uniform = {}
    /\ motion_score = NotEvaluated
    /\ steady_score = NotEvaluated
    /\ unsteady_score = NotEvaluated
    /\ staircase_score = NotEvaluated
    /\ surface_score = NotEvaluated
    /\ prev_category = category
    /\ madgwick = << >>
    /\ q_start = << >>
    /\ q_prev = << >>
    /\ gyro = << >>
    /\ accel = << >>
    /\ dt = 0
    /\ grad = << >>

\* model scoring logic and "find highest score" of one pass of the loop body
Classify ==
    /\ pc = "start"
    /\ \E r \in WideRuns :
          /\ motion_score' = r.motion_score
          /\ steady_score' = r.steady_score
          /\ unsteady_score' = r.unsteady_score
          /\ staircase_score' = r.staircase_score
          /\ surface_score' = r.surface_score
          /\ score' = r.score
          /\ category' = TallyUpdate(category, r.score)
    /\ prev_category' = category
    /\ c' = c + 1
    /\ pc' = "tallied"
    /\ UNCHANGED <<sensors_initialized, device_state, last_button_state, pin_reads,
                   changes, index, activity, result, display, reads, dev_at_call,
                   failedAt, uniform>>
    /\ UNCHANGED filtVars

\* "determine most frequent category" and the mapper lookup
Vote ==
    /\ pc \in {"start", "tallied"}
    /\ index' = Winner(category)
    /\ activity' = mapper_get(Winner(category))
    /\ pc' = "voted"
    /\ UNCHANGED <<sensors_initialized, device_state, last_button_state, pin_reads,
                   category, c, score, changes, result, display, reads, dev_at_call,
                   failedAt, uniform>>
    /\ UNCHANGED <<cascVars, filtVars>>

NextCascade == Classify \/ Vote

SpecCascade == InitCascade /\ [][NextCascade]_vars

----------------------------------------------------------------------------
(* Properties of SpecCascade *)

IsMaxOf(f, i) == \A j \in Slots : f[j] <= f[i]

\* the lowest slot holding the maximum of f
LowestMaxSlot(f) == CHOOSE k \in Slots : IsMaxOf(f, k) /\ \A j \in 0..(k - 1) : f[j] < f[k]

RECURSIVE SumFrom(_, _)
SumFrom(f, i) == IF i > 6 THEN 0 ELSE f[i] + SumFrom(f, i + 1)

Evaluated(x) == x # NotEvaluated

\* C1: the vote resolves every tally to the lowest slot holding the maximum,
\* and the label is mapper of that slot.
C1_LowestIndexWins ==
    pc = "voted" =>
        /\ index = LowestMaxSlot(category)
        /\ activity = mapper[LowestMaxSlot(category)]

\* slots 1 and 2 tie at the maximum, above slot 0: "Jogging"
C1_Witness ==
    /\ pc = "voted"
    /\ category[0] < category[1]
    /\ category[1] = category[2]
    /\ IsMaxOf(category, 1)
    /\ activity = "Jogging"

\* C2: the tally update adds one to every slot whose score equals the maximum
\* of the cascade output and leaves the others alone, so m tied slots add m
\* to the tally sum.
C2_EveryMaxSlotVotes ==
    pc = "tallied" =>
        /\ \A i \in Slots :
              category[i] = prev_category[i] + (IF IsMaxOf(score, i) THEN 1 ELSE 0)
        /\ SumFrom(category, 0) =
              SumFrom(prev_category, 0) + Cardinality({i \in Slots : IsMaxOf(score, i)})

\* output [0,0,0,0,1,1,0]: slots 4 and 5 get one vote each, nothing else moves
C2_Witness ==
    /\ pc = "tallied"
    /\ score = [i \in Slots |-> IF i \in {4, 5} THEN 1 ELSE 0]
    /\ category = [i \in Slots |-> prev_category[i] + (IF i \in {4, 5} THEN 1 ELSE 0)]
    /\ prev_category[4] > 0

\* C3: the cascade asks exactly one leaf: steady when motion[0] >= motion[1]
\* (unsteady is then not asked), else staircase when unsteady[0] <=
\* unsteady[1], else surface; the leaf's scores fill its slots, the rest is 0.
C3_CascadeRouting ==
    pc = "tallied" =>
        /\ Evaluated(motion_score)
        /\ IF motion_score[0] >= motion_score[1]
           THEN /\ Evaluated(steady_score)
                /\ ~Evaluated(unsteady_score)
                /\ ~Evaluated(staircase_score)
                /\ ~Evaluated(surface_score)
                /\ \A i \in Slots : score[i] = IF i \in 4..6 THEN steady_score[i - 4] ELSE 0
           ELSE /\ ~Evaluated(steady_score)
                /\ Evaluated(unsteady_score)
                /\ IF unsteady_score[0] <= unsteady_score[1]
                   THEN /\ Evaluated(staircase_score)
                        /\ ~Evaluated(surface_score)
                        /\ \A i \in Slots :
                              score[i] = IF i \in 2..3 THEN staircase_score[i - 2] ELSE 0
                   ELSE /\ Evaluated(surface_score)
                        /\ ~Evaluated(staircase_score)
                        /\ \A i \in Slots :
                              score[i] = IF i \in 0..1 THEN surface_score[i] ELSE 0

\* motion favours unsteady, unsteady ties: the staircase leaf fills slots 2-3
C3_Witness ==
    /\ pc = "tallied"
    /\ motion_score[0] < motion_score[1]
    /\ unsteady_score[0] = unsteady_score[1]
    /\ Evaluated(staircase_score)
    /\ score[2] = staircase_score[0]
    /\ score[3] = staircase_score[1]
    /\ score[2] # score[3]

\* slots of the leaf the cascade routed the latest sample to
LeafSlots ==
    IF Evaluated(steady_score) THEN 4..6
    ELSE IF Evaluated(staircase_score) THEN 2..3
    ELSE 0..1

\* C10: every slot a sample increments lies in the leaf it was routed to.
C10_VotesStayInLeaf ==
    pc = "tallied" => \A i \in Slots : category[i] # prev_category[i] => i \in LeafSlots

----------------------------------------------------------------------------
(* madgwick.py in fixed-point arithmetic *)

\* float division, rounding toward zero
TDiv(a, b) == IF a >= 0 THEN a \div b ELSE -((-a) \div b)

\* float product of two scaled numbers
Mul(a, b) == TDiv(a * b, Scale)

RECURSIVE IsqrtIn(_, _, _)
IsqrtIn(n, lo, hi) ==
    IF lo >= hi THEN lo
    ELSE LET mid == (lo + hi + 1) \div 2
         IN  IF mid * mid <= n THEN IsqrtIn(n, mid, hi) ELSE IsqrtIn(n, lo, mid - 1)

\* math.sqrt of an integer, rounded down
Isqrt(n) == IsqrtIn(n, 0, 46340)

\* math.radians: degrees * pi / 180, pi taken as 355/113
Radians(deg) == TDiv(deg * 355 * Scale, 113 * 180)

\* Madgwick.__init__ defaults
Beta == Scale \div 10
Identity == <<Scale, 0, 0, 0>>

\* "Normalize accelerometer measurement"; << >> when the norm is zero
NormalizeAccel(a) ==
    LET norm == Isqrt((a[1] * a[1] + a[2] * a[2] + a[3] * a[3]) * Scale * Scale)
    IN  IF norm = 0 THEN << >>
        ELSE <<TDiv(a[1] * Scale * Scale, norm), TDiv(a[2] * Scale * Scale, norm),
               TDiv(a[3] * Scale * Scale, norm)>>

\* f1, f2, f3 of the "gradient descent algorithm corrective step"
ObjectiveF1(q, an) == Mul(2 * q[2], q[4]) - Mul(2 * q[1], q[3]) - an[1]
ObjectiveF2(q, an) == Mul(2 * q[1], q[2]) + Mul(2 * q[3], q[4]) - an[2]
ObjectiveF3(q, an) == Scale - Mul(2 * q[2], q[2]) - Mul(2 * q[3], q[3]) - an[3]

\* s0..s3 of the corrective step, as written in updateIMU
CorrectiveStep(q, f1, f2, f3) ==
    LET q0 == q[1]  q1 == q[2]  q2 == q[3]  q3 == q[4]
    IN  << -Mul(2 * q2, f1) + Mul(2 * q1, f3),
           Mul(2 * q3, f1) + Mul(2 * q0, f3) - Mul(4 * q1, f2),
           -Mul(2 * q0, f1) + Mul(2 * q3, f2) - Mul(4 * q2, f3),
           Mul(2 * q1, f1) + Mul(2 * q2, f2) >>

\* s0..s3 before normalisation
Gradient(q, an) ==
    CorrectiveStep(q, ObjectiveF1(q, an), ObjectiveF2(q, an), ObjectiveF3(q, an))

\* "Normalize quaternion": no guard on the division
NormalizeQuat(n, norm_q) ==
    <<TDiv(n[1] * Scale, norm_q), TDiv(n[2] * Scale, norm_q),
      TDiv(n[3] * Scale, norm_q), TDiv(n[4] * Scale, norm_q)>>

\* "Integrate to yield quaternion", then normalise
Integrate(q, qDot, dts) ==
    LET n == <<q[1] + Mul(qDot[1], dts), q[2] + Mul(qDot[2], dts),
               q[3] + Mul(qDot[3], dts), q[4] + Mul(qDot[4], dts)>>
    IN  NormalizeQuat(n, Isqrt(n[1] * n[1] + n[2] * n[2] + n[3] * n[3] + n[4] * n[4]))

\* "Compute rate of change of quaternion"
RateOfChange(q, gx, gy, gz, sn) ==
    LET q0 == q[1]  q1 == q[2]  q2 == q[3]  q3 == q[4]
    IN  << TDiv(-Mul(q1, gx) - Mul(q2, gy) - Mul(q3, gz), 2) - Mul(Beta, sn[1]),
           TDiv(Mul(q0, gx) + Mul(q2, gz) - Mul(q3, gy), 2) - Mul(Beta, sn[2]),
           TDiv(Mul(q0, gy) - Mul(q1, gz) + Mul(q3, gx), 2) - Mul(Beta, sn[3]),
           TDiv(Mul(q0, gz) + Mul(q1, gy) - Mul(q2, gx), 2) - Mul(Beta, sn[4]) >>

\* updateIMU from the normalisation of the gradient on
CorrectAndIntegrate(q, g, s, norm_s, dts) ==
    IF norm_s = 0 THEN q
    ELSE Integrate(q,
                   RateOfChange(q, Radians(g[1]), Radians(g[2]), Radians(g[3]),
                                <<TDiv(s[1] * Scale, norm_s), TDiv(s[2] * Scale, norm_s),
                                  TDiv(s[3] * Scale, norm_s), TDiv(s[4] * Scale, norm_s)>>),
                   dts)

\* updateIMU from the gradient on
AfterGradient(q, g, s, dts) ==
    [q |-> CorrectAndIntegrate(q, g, s,
               Isqrt(s[1] * s[1] + s[2] * s[2] + s[3] * s[3] + s[4] * s[4]), dts),
     grad |-> s]

\* updateIMU from the normalised accelerometer measurement on
AfterNormalize(q, g, an, dts) ==
    IF an = << >> THEN [q |-> q, grad |-> << >>]
    ELSE AfterGradient(q, g, Gradient(q, an), dts)

\* Madgwick.updateIMU: the quaternion it leaves in the object and the
\* gradient it computed (<< >> when it returned before computing one);
\* dtms is the tick difference, dt = dtms / 1000.0
updateIMU(q, g, a, dtms) ==
    AfterNormalize(q, g, NormalizeAccel(a), TDiv(dtms * Scale, 1000))

\* madgwick = Madgwick(beta=0.1) inside the loop body: the quaternion the
\* sample's update starts from, given the one the previous sample ended with
FilterReused(prev) == IF prev = << >> THEN Identity ELSE prev
FilterForSample(prev) == Identity

----------------------------------------------------------------------------
(* SpecFilter: the filter part of the loop body, sample after sample *)

InitFilter ==
    /\ pc = "filter"
    /\ category = ZeroTally
    /\ sensors_initialized = TRUE
    /\ device_state = TRUE
    /\ last_button_state = 0
    /\ pin_reads = << >>
    /\ c = 0
    /\ score = ZeroTally
    /\ changes = 0
    /\ index = 0
    /\ activity = "Unknown"
    /\ result = "None"
    /\ display = << >>
    /\ reads = 0
    /\ dev_at_call = TRUE
    /\ failedAt = 0
    /\ uniform = {}
    /\ motion_score = NotEvaluated
    /\ steady_score = NotEvaluated
    /\ unsteady_score = NotEvaluated
    /\ staircase_score = NotEvaluated
    /\ surface_score = NotEvaluated
    /\ prev_category = category
    /\ madgwick = << >>
    /\ q_start = << >>
    /\ q_prev = << >>
    /\ gyro = << >>
    /\ accel = << >>
    /\ dt = 0
    /\ grad = << >>

\* read the sensor, construct the filter, take dt, updateIMU
FilterSample ==
    /\ pc = "filter"
    /\ MoreSamples(c)
    /\ \E g \in GyroVals, a \in AccelVals, d \in DtVals :
          \E upd \in {updateIMU(FilterForSample(madgwick), g, a, d)} :
              /\ gyro' = g
              /\ accel' = a
              /\ dt' = d
              /\ q_start' = FilterForSample(madgwick)
              /\ madgwick' = upd.q
              /\ grad' = upd.grad
    /\ q_prev' = madgwick
    /\ reads' = reads + 1
    /\ c' = c + 1
    /\ UNCHANGED <<pc, sensors_initialized, device_state, last_button_state, pin_reads,
                   category, score, changes, index, activity, result, display,
                   dev_at_call, failedAt, uniform>>
    /\ UNCHANGED cascVars

\* the batch is over; the next call starts a new one
FilterNextBatch ==
    /\ pc = "filter"
    /\ ~MoreSamples(c)
    /\ c' = 0
    /\ reads' = 0
    /\ madgwick' = << >>
    /\ q_start' = << >>
    /\ q_prev' = << >>
    /\ gyro' = << >>
    /\ accel' = << >>
    /\ dt' = 0
    /\ grad' = << >>
    /\ UNCHANGED <<pc, sensors_initialized, device_state, last_button_state, pin_reads,
                   category, score, changes, index, activity, result, display,
                   dev_at_call, failedAt, uniform>>
    /\ UNCHANGED cascVars

NextFilter == FilterSample \/ FilterNextBatch

SpecFilter == InitFilter /\ [][NextFilter]_vars

----------------------------------------------------------------------------
(* Properties of SpecFilter *)

\* C8: the corrective terms before normalisation are J^T f of
\* f1 = 2(q1 q3 - q0 q2) - ax, f2 = 2(q0 q1 + q2 q3) - ay,
\* f3 = 1 - 2 q1^2 - 2 q2^2 - az:
\* s0 = -2 q2 f1 + 2 q1 f2, s1 = 2 q3 f1 + 2 q0 f2 - 4 q1 f3,
\* s2 = -2 q0 f1 + 2 q3 f2 - 4 q2 f3, s3 = 2 q1 f1 + 2 q2 f2.
C8_GradientIsStandard ==
    (pc = "filter" /\ grad # << >>) =>
        LET q0 == q_start[1]  q1 == q_start[2]  q2 == q_start[3]  q3 == q_start[4]
            an == NormalizeAccel(accel)
            f1 == 2 * (Mul(q1, q3) - Mul(q0, q2)) - an[1]
            f2 == 2 * (Mul(q0, q1) + Mul(q2, q3)) - an[2]
            f3 == Scale - 2 * Mul(q1, q1) - 2 * Mul(q2, q2) - an[3]
        IN  grad = << -2 * Mul(q2, f1) + 2 * Mul(q1, f2),
                      2 * Mul(q3, f1) + 2 * Mul(q0, f2) - 4 * Mul(q1, f3),
                      -2 * Mul(q0, f1) + 2 * Mul(q3, f2) - 4 * Mul(q2, f3),
                      2 * Mul(q1, f1) + 2 * Mul(q2, f2) >>

\* C9: every sample's update starts from the quaternion (1,0,0,0) of a filter
\* constructed for that sample, never from what the sample before produced,
\* so the quaternion after the update is that of a first update on the
\* sample's own gyro, accel and dt.
C9_FreshFilterPerSample ==
    (pc = "filter" /\ c > 0) =>
        /\ q_start = <<Scale, 0, 0, 0>>
        /\ madgwick = updateIMU(<<Scale, 0, 0, 0>>, gyro, accel, dt).q

\* the sample before left a rotated quaternion, and this sample still started
\* from (1,0,0,0) and ended somewhere else than the sample before
C9_Witness ==
    /\ pc = "filter"
    /\ c >= 2
    /\ q_prev # << >>
    /\ q_prev # <<Scale, 0, 0, 0>>
    /\ q_start = <<Scale, 0, 0, 0>>
    /\ madgwick # <<Scale, 0, 0, 0>>
    /\ madgwick # q_prev

====
